---- MODULE Spec2Model ----
(***************************************************************************)
(* The Infinite Loop solver of infiniteloop.c: il_solve, dpll, propagate,  *)
(* guess and report, as a state machine over the board, the options grid   *)
(* of the running dpll call, the stack of suspended guess calls and the    *)
(* solutions handed to the callback.                                       *)
(*                                                                         *)
(* Cells are pairs <<x, y>>, x the column and y the row, as board[x][y].   *)
(* Shapes and options are the integers the code stores in unsigned char:   *)
(* bit 0 (0x1) north, bit 1 (0x2) east, bit 2 (0x4) south, bit 3 (0x8)     *)
(* west; y grows southwards.                                               *)
(***************************************************************************)
EXTENDS Integers, Sequences, FiniteSets, TLC

\* Board axis width. The code fixes it at 16; the model checks a smaller
\* board, border included, so that every board of that size is explored.
IL_AXIS == 5

\* Width and height of the top-left corner of the interior in which every
\* combination of parsed pieces is tried.
MaxTyped == 2

----------------------------------------------------------------------------
\* Bit operations on unsigned char values.

RECURSIVE BitAndR(_, _)
BitAndR(a, b) ==
  IF a = 0 \/ b = 0 THEN 0
  ELSE (a % 2) * (b % 2) + 2 * BitAndR(a \div 2, b \div 2)

RECURSIVE BitOrR(_, _)
BitOrR(a, b) ==
  IF a = 0 THEN b
  ELSE IF b = 0 THEN a
  ELSE (IF a % 2 = 1 \/ b % 2 = 1 THEN 1 ELSE 0) + 2 * BitOrR(a \div 2, b \div 2)

Byte == 0 .. 255
Nibble == 0 .. 15

AndTab == [a \in Byte |-> [b \in Byte |-> BitAndR(a, b)]]
OrTab == [a \in Byte |-> [b \in Byte |-> BitOrR(a, b)]]

And(a, b) == AndTab[a][b]
Or(a, b) == OrTab[a][b]
Xor(a, b) == Or(a, b) - And(a, b)
\* The low byte of ~a.
Not(a) == 255 - a

----------------------------------------------------------------------------
\* Shape algebra.

\* unsigned char v = a * b; return (v | (v >> 4)) & 0xf;
rotate(a, b) ==
  LET v == (a * b) % 256
  IN And(Or(v, v \div 16), 15)

\* return ((c << 2) | (c >> 2)) & 0xf;
rotate2(c) == And(Or(c * 4, c \div 4) % 256, 15)

\* fanout over all four directions, whatever the options are.
fanoutAll(a, b) ==
  LET v == Or(Or(a, (a * 2) % 256), Or((a * 4) % 256, (a * 8) % 256))
  IN And(Or(v, v \div 16), 15)

\* unsigned char v = a*(b&1) | a*(b&2) | a*(b&4) | a*(b&8);
\* return (v | (v >> 4)) & 0xf;
fanout(a, b) ==
  LET v == Or(Or((a * And(b, 1)) % 256, (a * And(b, 2)) % 256),
              Or((a * And(b, 4)) % 256, (a * And(b, 8)) % 256))
  IN And(Or(v, v \div 16), 15)

\* The three operations on the values of four bits, computed once.
rotateTab == [a \in Nibble |-> [b \in Nibble |-> rotate(a, b)]]
rotate2Tab == [c \in Nibble |-> rotate2(c)]
fanoutTab == [a \in Nibble |-> [b \in Nibble |-> fanout(a, b)]]

\* return (c & (c - 1)) == 0;  (c - 1 is computed in int: 0 gives -1)
single_bit_set(c) == c = 0 \/ And(c, c - 1) = 0

\* The values of the loop variable i of propagate and guess: 1, 2, 4, 8.
Steps == <<1, 2, 4, 8>>

----------------------------------------------------------------------------
\* Grids.

Axis == 0 .. IL_AXIS - 1
Cells == Axis \X Axis
Interior == (1 .. IL_AXIS - 2) \X (1 .. IL_AXIS - 2)
Border == Cells \ Interior

\* The order in which the loops "for x ... for y ..." visit the interior.
NInterior == (IL_AXIS - 2) * (IL_AXIS - 2)
CellAt(k) == <<1 + ((k - 1) \div (IL_AXIS - 2)), 1 + ((k - 1) % (IL_AXIS - 2))>>

finished(options) == \A c \in Interior : single_bit_set(options[c])

----------------------------------------------------------------------------
\* propagate.

\* #define YES(x, y, idx) (fanout(p->board[x][y], options[x][y]) & (1 << idx))
YES(b, o, c, idx) == And(fanoutTab[b[c]][o[c]], 2 ^ idx)

\* #define NO(x, y, idx) (fanout(p->board[x][y] ^ 0xf, options[x][y]) & (1 << idx))
NO(b, o, c, idx) == And(fanoutTab[Xor(b[c], 15)][o[c]], 2 ^ idx)

\* Edges of cell <<x, y>> that may be present, from the four neighbours.
may_be_set(b, o, x, y) ==
  rotate2Tab[Or(Or(YES(b, o, <<x, y + 1>>, 0), YES(b, o, <<x - 1, y>>, 1)),
             Or(YES(b, o, <<x, y - 1>>, 2), YES(b, o, <<x + 1, y>>, 3)))]

\* Edges of cell <<x, y>> that may be absent, from the four neighbours.
may_be_clear(b, o, x, y) ==
  rotate2Tab[Or(Or(NO(b, o, <<x, y + 1>>, 0), NO(b, o, <<x - 1, y>>, 1)),
             Or(NO(b, o, <<x, y - 1>>, 2), NO(b, o, <<x + 1, y>>, 3)))]

\* The test of a direction without "if ((options[x][y] & i) != 0)".
FitsAnyDirection(shape, old, i, set, clear) ==
  LET c == rotateTab[shape][i]
  IN And(c, Not(set)) = 0 /\ Or(c, clear) = 15

\* The test of a direction with the check against may_be_set left out.
FitsClearOnly(shape, old, i, set, clear) ==
  /\ And(old, i) # 0
  /\ Or(rotateTab[shape][i], clear) = 15

\* The test of one direction i of a cell: the direction is still an option
\* and the rotated shape c fits both masks.
Fits(shape, old, i, set, clear) ==
  /\ And(old, i) # 0
  /\ LET c == rotateTab[shape][i]
     IN And(c, Not(set)) = 0 /\ Or(c, clear) = 15

\* The loop "for (i = 0x1; i <= 0x8; i <<= 1)" of propagate for one cell.
new_options(b, o, x, y) ==
  LET set == may_be_set(b, o, x, y)
      clear == may_be_clear(b, o, x, y)
      bit(k) == IF Fits(b[<<x, y>>], o[<<x, y>>], Steps[k], set, clear)
                THEN Steps[k] ELSE 0
  IN bit(1) + bit(2) + bit(3) + bit(4)

\* A pass that sets made_change at every cell it visits.
RECURSIVE SweepFromLoud(_, _, _, _)
SweepFromLoud(b, o, k, made_change) ==
  IF k > NInterior
  THEN [options |-> o, failed |-> FALSE, made_change |-> made_change]
  ELSE LET c == CellAt(k)
       IN CHOOSE r \in
            {IF n # o[c] /\ n = 0
             THEN [options |-> o, failed |-> TRUE, made_change |-> made_change]
             ELSE SweepFromLoud(b, [o EXCEPT ![c] = n], k + 1, TRUE)
               : n \in {new_options(b, o, c[1], c[2])}} : TRUE

\* A pass whose made_change tells of the last cell only.
RECURSIVE SweepFromLast(_, _, _, _)
SweepFromLast(b, o, k, made_change) ==
  IF k > NInterior
  THEN [options |-> o, failed |-> FALSE, made_change |-> made_change]
  ELSE LET c == CellAt(k)
       IN CHOOSE r \in
            {IF n # o[c] /\ n = 0
             THEN [options |-> o, failed |-> TRUE, made_change |-> made_change]
             ELSE SweepFromLast(b, [o EXCEPT ![c] = n], k + 1, n # o[c])
               : n \in {new_options(b, o, c[1], c[2])}} : TRUE

\* A pass that writes a cell without options and goes on.
RECURSIVE SweepFromOn(_, _, _, _)
SweepFromOn(b, o, k, made_change) ==
  IF k > NInterior
  THEN [options |-> o, failed |-> FALSE, made_change |-> made_change]
  ELSE LET c == CellAt(k)
       IN CHOOSE r \in
            {SweepFromOn(b, [o EXCEPT ![c] = n], k + 1, made_change \/ n # o[c])
               : n \in {new_options(b, o, c[1], c[2])}} : TRUE

\* One pass of the two for loops of propagate, from the k-th interior cell
\* on. A contradiction returns at once and leaves the cell as it was, with
\* the cells before it already rewritten. n is new_options, computed once
\* for the cell.
RECURSIVE SweepFrom(_, _, _, _)
SweepFrom(b, o, k, made_change) ==
  IF k > NInterior
  THEN [options |-> o, failed |-> FALSE, made_change |-> made_change]
  ELSE LET c == CellAt(k)
       IN CHOOSE r \in
            {IF n # o[c] /\ n = 0
             THEN [options |-> o, failed |-> TRUE, made_change |-> made_change]
             ELSE SweepFrom(b, [o EXCEPT ![c] = n], k + 1, made_change \/ n # o[c])
               : n \in {new_options(b, o, c[1], c[2])}} : TRUE

\* One iteration of the do-while loop.
Sweep(b, o) == SweepFrom(b, o, 1, FALSE)

\* The whole call: the grid it leaves and the value it returns.
RECURSIVE propagate(_, _)
propagate(b, o) ==
  LET s == Sweep(b, o)
  IN IF s.failed THEN [options |-> s.options, result |-> FALSE]
     ELSE IF s.made_change THEN propagate(b, s.options)
     ELSE [options |-> s.options, result |-> TRUE]

----------------------------------------------------------------------------
\* il_solve's table of options and report's solution.

\* Initial options that let every shape but the empty one and the crossing
\* turn in all four directions.
InitialOptionNoStraight(shape) ==
  IF shape = 0 \/ shape = 15 THEN 1 ELSE 15

\* Initial options that treat every shape with two stubs as a straight line.
InitialOptionCorner(shape) ==
  IF shape = 0 \/ shape = 15 THEN 1
  ELSE IF shape \in {3, 6, 12, 9} \/ shape \div 4 = And(shape, 3) THEN 3 ELSE 15

\* The initial options of one cell, from its shape.
InitialOption(shape) ==
  IF shape = 0 \/ shape = 15 THEN 1
  ELSE IF shape \div 4 = And(shape, 3) THEN 3 ELSE 15

InitialOptions(b) == [c \in Cells |-> InitialOption(b[c])]

HIndex == (0 .. IL_AXIS - 4) \X (0 .. IL_AXIS - 3)
VIndex == (0 .. IL_AXIS - 3) \X (0 .. IL_AXIS - 4)

\* The rotated shape report reads for solution index <<x, y>>.
Placed(b, o, c) == rotateTab[b[c]][o[c]]

\* struct il_solution as report fills it.
Extract(b, o) ==
  [horizontal |-> [e \in HIndex |->
                     And(Placed(b, o, <<e[1] + 1, e[2] + 1>>), 2) # 0],
   vertical |-> [e \in VIndex |->
                     And(Placed(b, o, <<e[1] + 1, e[2] + 1>>), 4) # 0]]

Solutions == [horizontal : [HIndex -> BOOLEAN], vertical : [VIndex -> BOOLEAN]]

\* The outgoing edges of the cell at solution index <<x, y>>, as
\* il_solution_print computes idx.
StubMask(s, x, y) ==
    (IF y > 0 /\ s.vertical[<<x, y - 1>>] THEN 1 ELSE 0)
  + (IF x < IL_AXIS - 3 /\ s.horizontal[<<x, y>>] THEN 2 ELSE 0)
  + (IF y < IL_AXIS - 3 /\ s.vertical[<<x, y>>] THEN 4 ELSE 0)
  + (IF x > 0 /\ s.horizontal[<<x - 1, y>>] THEN 8 ELSE 0)

----------------------------------------------------------------------------
\* The boards il_solve is run on: the border is empty on all of them.

\* The shapes il_problem_parse writes: empty, dead end, corner, straight
\* line, three-way junction, crossing.
ParsedShapes == {0, 1, 3, 5, 7, 15}

Typed == (1 .. MaxTyped) \X (1 .. MaxTyped)

\* Every board whose pieces lie in the top-left corner of the interior.
TypedBoards ==
  {[c \in Cells |-> IF c \in Typed THEN f[c] ELSE 0] : f \in [Typed -> ParsedShapes]}

\* The board whose piece at every interior cell is the shape a solution's
\* edges give that cell: a board that has this solution.
Unsolve(s) ==
  [c \in Cells |-> IF c \in Interior THEN StubMask(s, c[1] - 1, c[2] - 1) ELSE 0]

UnsolvedBoards == {Unsolve(s) : s \in Solutions}

\* Every board of dead ends and empty cells.
DeadEndBoards ==
  {[c \in Cells |-> IF c \in Interior THEN f[c] ELSE 0] : f \in [Interior -> {0, 1}]}

Boards == TypedBoards \cup DeadEndBoards \cup UnsolvedBoards

EmptySolution ==
  [horizontal |-> [e \in HIndex |-> FALSE], vertical |-> [e \in VIndex |-> FALSE]]

----------------------------------------------------------------------------
\* The state of one call of il_solve.

VARIABLES
  board,      \* p->board
  opts,       \* the options grid of the running dpll call
  entry,      \* that grid as it was when the call's propagate began
  stack,      \* the suspended calls of guess, innermost last
  pc,         \* where the solver is
  ret,        \* the value the last dpll call returned
  u,          \* guess's last random draw
  sol,        \* the solution report extracted last
  delivered,  \* the solutions the callback has received, in order
  stopped,    \* the callback has returned false
  parser      \* il_problem_parse's cursor x, y and the characters it has read

vars ==
  <<board, opts, entry, stack, pc, ret, u, sol, delivered, stopped, parser>>

\* il_problem_parse's locals as it sets them before its loop; no call of
\* it is running while they hold these values and pc is the solver's.
Cursor == [x |-> 1, y |-> 1, n |-> 0]

\* A suspended guess: its options argument, the cell it picked and the
\* value of its loop variable i.
Frame(o, x, y, i) == [options |-> o, x |-> x, y |-> y, i |-> i]

Top == stack[Len(stack)]
Pop == SubSeq(stack, 1, Len(stack) - 1)

\* il_solve fills the table of options and calls dpll.
Init ==
  /\ board \in Boards
  /\ opts = InitialOptions(board)
  /\ entry = opts
  /\ stack = <<>>
  /\ pc = "propagate"
  /\ ret = TRUE
  /\ u = 0
  /\ sol = EmptySolution
  /\ delivered = <<>>
  /\ stopped = FALSE
  /\ parser = Cursor

\* One iteration of propagate's do-while loop. A contradiction makes
\* propagate return false, a pass without change makes it return true.
SweepStep ==
  /\ pc = "propagate"
  /\ \E s \in {Sweep(board, opts)} :
       /\ opts' = s.options
       /\ pc' = IF s.failed THEN "pruned"
                ELSE IF s.made_change THEN "propagate" ELSE "propagated"
  /\ UNCHANGED <<board, entry, stack, ret, u, sol, delivered, stopped, parser>>

\* dpll that returns what propagate returned.
PruneStops ==
  /\ pc = "pruned"
  /\ ret' = FALSE
  /\ pc' = "return"
  /\ UNCHANGED <<board, opts, entry, stack, u, sol, delivered, stopped, parser>>

\* dpll: !propagate(p, options) is true, dpll returns true.
Prune ==
  /\ pc = "pruned"
  /\ ret' = TRUE
  /\ pc' = "return"
  /\ UNCHANGED <<board, opts, entry, stack, u, sol, delivered, stopped, parser>>

\* dpll: finished(options), so report extracts the edges.
Report ==
  /\ pc = "propagated"
  /\ finished(opts)
  /\ sol' = Extract(board, opts)
  /\ pc' = "callback"
  /\ UNCHANGED <<board, opts, entry, stack, ret, u, delivered, stopped, parser>>

\* report: the callback receives the solution; what it returns is what
\* report and dpll return.
Callback ==
  /\ pc = "callback"
  /\ \E b \in BOOLEAN :
       /\ ret' = b
       /\ stopped' = (stopped \/ ~b)
  /\ delivered' = Append(delivered, sol)
  /\ pc' = "return"
  /\ UNCHANGED <<board, opts, entry, stack, u, sol, parser>>

\* dpll: not finished, so guess is called.
EnterGuess ==
  /\ pc = "propagated"
  /\ ~finished(opts)
  /\ pc' = "guess"
  /\ UNCHANGED <<board, opts, entry, stack, ret, u, sol, delivered, stopped, parser>>

\* guess: one iteration of the do-while loop that draws a cell. A cell
\* with a single option is drawn again; any other cell is picked.
Sample ==
  /\ pc = "guess"
  /\ \E v \in 0 .. IL_AXIS * IL_AXIS - 1 :
       LET x == v \div IL_AXIS
           y == v % IL_AXIS
       IN /\ u' = v
          /\ IF single_bit_set(opts[<<x, y>>])
             THEN UNCHANGED <<stack, pc>>
             ELSE /\ stack' = Append(stack, Frame(opts, x, y, 1))
                  /\ pc' = "branch"
  /\ UNCHANGED <<board, opts, entry, ret, sol, delivered, stopped, parser>>

\* guess: one iteration of the for loop. An allowed direction i is tried on
\* a copy of the grid; a direction that is not allowed is skipped.
Branch ==
  /\ pc = "branch"
  /\ Top.i <= 8
  /\ LET f == Top
         c == <<f.x, f.y>>
     IN IF And(f.options[c], f.i) # 0
        THEN /\ opts' = [f.options EXCEPT ![c] = f.i]
             /\ entry' = opts'
             /\ pc' = "propagate"
             /\ UNCHANGED stack
        ELSE /\ stack' = Append(Pop, Frame(f.options, f.x, f.y, f.i * 2))
             /\ UNCHANGED <<opts, entry, pc>>
  /\ UNCHANGED <<board, ret, u, sol, delivered, stopped, parser>>

\* guess: the for loop has tried every direction; guess returns true.
BranchEnd ==
  /\ pc = "branch"
  /\ Top.i > 8
  /\ ret' = TRUE
  /\ opts' = Top.options
  /\ stack' = Pop
  /\ pc' = "return"
  /\ UNCHANGED <<board, entry, u, sol, delivered, stopped, parser>>

\* guess that goes on with the next direction whatever dpll returned.
ReturnToGuessIgnoring ==
  /\ pc = "return"
  /\ stack # <<>>
  /\ LET f == Top
     IN /\ opts' = f.options
        /\ stack' = Append(Pop, Frame(f.options, f.x, f.y, f.i * 2))
        /\ pc' = "branch"
  /\ UNCHANGED <<board, entry, ret, u, sol, delivered, stopped, parser>>

\* A dpll call returns to the guess that made it: false makes guess
\* return false at once, true makes it go on with the next direction.
ReturnToGuess ==
  /\ pc = "return"
  /\ stack # <<>>
  /\ LET f == Top
     IN /\ opts' = f.options
        /\ IF ret
           THEN /\ stack' = Append(Pop, Frame(f.options, f.x, f.y, f.i * 2))
                /\ pc' = "branch"
           ELSE /\ stack' = Pop
                /\ pc' = "return"
  /\ UNCHANGED <<board, entry, ret, u, sol, delivered, stopped, parser>>

\* The outermost dpll call returns to il_solve, which returns.
ReturnToSolve ==
  /\ pc = "return"
  /\ stack = <<>>
  /\ pc' = "done"
  /\ UNCHANGED <<board, opts, entry, stack, ret, u, sol, delivered, stopped, parser>>

Next ==
  \/ SweepStep
  \/ Prune
  \/ Report
  \/ Callback
  \/ EnterGuess
  \/ Sample
  \/ Branch
  \/ BranchEnd
  \/ ReturnToGuess
  \/ ReturnToSolve

Spec == Init /\ [][Next]_vars

\* guess's draw of a cell that has several options.
SamplePick == Sample /\ pc' = "branch"

\* Every step that can be taken is taken in the end, and a random draw
\* that is repeated for ever hits, in the end, a cell that guess accepts.
\* il_solve called on one of the smaller set of boards.
SmallInit == Init /\ board \in TypedBoards \cup DeadEndBoards

FairSpec == SmallInit /\ [][Next]_vars /\ WF_vars(Next) /\ WF_vars(SamplePick)

----------------------------------------------------------------------------
\* propagate with the interior cells visited in any order. A cell is
\* visited when its update changes it; when no update changes a cell the
\* fixed point is reached. As in guess, a cell of a fixed point that has
\* several options is then set to one of them and propagation starts again.

VisitCell ==
  /\ pc = "propagate"
  /\ \E c \in Interior :
       \E n \in {new_options(board, opts, c[1], c[2])} :
         /\ n # opts[c]
         /\ IF n = 0
            THEN pc' = "pruned" /\ UNCHANGED opts
            ELSE opts' = [opts EXCEPT ![c] = n] /\ UNCHANGED pc
  /\ UNCHANGED <<board, entry, stack, ret, u, sol, delivered, stopped, parser>>

Settle ==
  /\ pc = "propagate"
  /\ \A c \in Interior : new_options(board, opts, c[1], c[2]) = opts[c]
  /\ pc' = "propagated"
  /\ UNCHANGED <<board, opts, entry, stack, ret, u, sol, delivered, stopped, parser>>

FixCell ==
  /\ pc = "propagated"
  /\ \E c \in Interior :
       \E k \in 1 .. 4 :
         /\ ~single_bit_set(opts[c])
         /\ And(opts[c], Steps[k]) # 0
         /\ opts' = [opts EXCEPT ![c] = Steps[k]]
  /\ entry' = opts'
  /\ pc' = "propagate"
  /\ UNCHANGED <<board, stack, ret, u, sol, delivered, stopped, parser>>

OrderNext == VisitCell \/ Settle \/ FixCell

OrderSpec == SmallInit /\ [][OrderNext]_vars

----------------------------------------------------------------------------
\* il_problem_parse followed by il_solve on the board it filled, as the
\* callers of the library run them.

\* The longest input string, its terminator not counted.
MaxInput == 6

\* The characters that stand for a shape and the shape each one writes.
ShapeOf == [ch \in {"1", "C", "S", "3", "4"} |->
              CASE ch = "1" -> 1
                [] ch = "C" -> 3
                [] ch = "S" -> 5
                [] ch = "3" -> 7
                [] ch = "4" -> 15]

\* The range test with the last index let through.
OutOfRangeLate(x, y) == x > IL_AXIS - 1 \/ y > IL_AXIS - 1

\* The test that makes il_problem_parse return false before a write.
OutOfRange(x, y) == x >= IL_AXIS - 1 \/ y >= IL_AXIS - 1

\* What the caller's struct il_problem may hold before the call.
StaleBoards == {[c \in Cells |-> s] : s \in {0, 15}}

\* No table of options exists before il_solve builds it.
NoOptions == [c \in Cells |-> 0]

ParseInit ==
  /\ board \in StaleBoards
  /\ opts = NoOptions
  /\ entry = NoOptions
  /\ stack = <<>>
  /\ pc = "clear"
  /\ ret = TRUE
  /\ u = 0
  /\ sol = EmptySolution
  /\ delivered = <<>>
  /\ stopped = FALSE
  /\ parser = Cursor

\* il_problem_parse throws away the existing board and puts the cursor on
\* the first interior cell.
ParseClear ==
  /\ pc = "clear"
  /\ board' = [c \in Cells |-> 0]
  /\ parser' = Cursor
  /\ pc' = "parse"
  /\ UNCHANGED <<opts, entry, stack, ret, u, sol, delivered, stopped>>

\* case '\0': the string has ended and il_problem_parse returns true.
ParseEnd ==
  /\ pc = "parse"
  /\ pc' = "parsed"
  /\ parser' = Cursor
  /\ UNCHANGED <<board, opts, entry, stack, ret, u, sol, delivered, stopped>>

\* case ' ': the cursor moves one cell to the right.
ParseSpace ==
  /\ pc = "parse"
  /\ parser.n < MaxInput
  /\ parser' = [parser EXCEPT !.x = @ + 1, !.n = @ + 1]
  /\ UNCHANGED <<board, opts, entry, stack, pc, ret, u, sol, delivered, stopped>>

\* case '\n': the cursor moves to the start of the next row.
ParseNewline ==
  /\ pc = "parse"
  /\ parser.n < MaxInput
  /\ parser' = [parser EXCEPT !.x = 1, !.y = @ + 1, !.n = @ + 1]
  /\ UNCHANGED <<board, opts, entry, stack, pc, ret, u, sol, delivered, stopped>>

\* The five cases of a shape: out of range il_problem_parse returns
\* false, in range it writes the shape and moves the cursor to the right.
ParseShape ==
  /\ pc = "parse"
  /\ parser.n < MaxInput
  /\ \E ch \in DOMAIN ShapeOf :
       IF OutOfRange(parser.x, parser.y)
       THEN /\ pc' = "rejected"
            /\ parser' = Cursor
            /\ UNCHANGED board
       ELSE /\ board' = [board EXCEPT ![<<parser.x, parser.y>>] = ShapeOf[ch]]
            /\ parser' = [parser EXCEPT !.x = @ + 1, !.n = @ + 1]
            /\ UNCHANGED pc
  /\ UNCHANGED <<opts, entry, stack, ret, u, sol, delivered, stopped>>

\* The switch has no default: any other character is skipped.
ParseOther ==
  /\ pc = "parse"
  /\ parser.n < MaxInput
  /\ parser' = [parser EXCEPT !.n = @ + 1]
  /\ UNCHANGED <<board, opts, entry, stack, pc, ret, u, sol, delivered, stopped>>

\* The caller passes the parsed board to il_solve, which fills the table
\* of options and calls dpll.
Solve ==
  /\ pc = "parsed"
  /\ opts' = InitialOptions(board)
  /\ entry' = opts'
  /\ pc' = "propagate"
  /\ UNCHANGED <<board, stack, ret, u, sol, delivered, stopped, parser>>

ParseNext ==
  \/ ParseClear
  \/ ParseEnd
  \/ ParseSpace
  \/ ParseNewline
  \/ ParseShape
  \/ ParseOther
  \/ Solve
  \/ Next

ParseSpec == ParseInit /\ [][ParseNext]_vars

----------------------------------------------------------------------------
\* Solutions as the puzzle defines them, without the solver.

\* Shape p turned clockwise by the quarter turns of direction i (1 none,
\* 2 one, 4 two, 8 three): stubs that pass west come back at north.
Turn(p, i) == ((p * i) % 16) + ((p * i) \div 16)

\* The direction facing d.
Opposite(d) == IF d = 1 THEN 4 ELSE IF d = 2 THEN 8 ELSE IF d = 4 THEN 1 ELSE 2

\* The stub of shape p in direction d (1 north, 2 east, 4 south, 8 west).
Stub(p, d) == (p \div d) % 2 = 1

\* The directions of a shape that give pairwise different placed shapes.
Distinct(shape) ==
  {i \in {1, 2, 4, 8} :
     \A j \in {1, 2, 4, 8} : j < i => Turn(shape, j) # Turn(shape, i)}

\* Placing cell c in direction i agrees with the border and with the cells
\* placed before it (its western and northern neighbours) in grid a.
AgreesSoFar(b, a, c, i) ==
  LET p == Turn(b[c], i)
      w == <<c[1] - 1, c[2]>>
      n == <<c[1], c[2] - 1>>
      e == <<c[1] + 1, c[2]>>
      s == <<c[1], c[2] + 1>>
  IN /\ Stub(p, 8) = Stub(Turn(b[w], a[w]), 2)
     /\ Stub(p, 1) = Stub(Turn(b[n], a[n]), 4)
     /\ e \in Border => ~Stub(p, 2)
     /\ s \in Border => ~Stub(p, 4)

\* Every grid of single directions, from the k-th interior cell on, in
\* which all neighbours agree on their shared edge.
RECURSIVE ValidFrom(_, _, _)
ValidFrom(b, g, k) ==
  IF k > NInterior THEN {g}
  ELSE UNION {ValidFrom(b, [d \in Cells |-> IF d = CellAt(k) THEN i ELSE g[d]], k + 1) :
                i \in {j \in Distinct(b[CellAt(k)]) : AgreesSoFar(b, g, CellAt(k), j)}}

ValidAssignments(b) == ValidFrom(b, [c \in Cells |-> 1], 1)

\* The edges of an assignment: each edge is read from both of its cells.
EdgesOf(b, a) ==
  [horizontal |-> [e \in HIndex |->
                     Stub(Turn(b[<<e[1] + 2, e[2] + 1>>], a[<<e[1] + 2, e[2] + 1>>]), 8)],
   vertical |-> [e \in VIndex |->
                     Stub(Turn(b[<<e[1] + 1, e[2] + 2>>], a[<<e[1] + 1, e[2] + 2>>]), 1)]]

ValidSolutions(b) == {EdgesOf(b, a) : a \in ValidAssignments(b)}

Delivered == {delivered[k] : k \in 1 .. Len(delivered)}

----------------------------------------------------------------------------
\* C1. Soundness: in every solution handed to the callback, each
\* horizontal edge bit equals the east stub of the chosen rotation of the
\* cell on its west side and the west stub of the cell on its east side,
\* and each vertical edge bit equals the south stub of the cell above it
\* and the north stub of the cell below it.
Soundness ==
  pc = "callback" =>
    /\ \A e \in HIndex :
         LET l == <<e[1] + 1, e[2] + 1>>
             r == <<e[1] + 2, e[2] + 1>>
         IN /\ sol.horizontal[e] = Stub(Turn(board[l], opts[l]), 2)
            /\ sol.horizontal[e] = Stub(Turn(board[r], opts[r]), 8)
    /\ \A e \in VIndex :
         LET t == <<e[1] + 1, e[2] + 1>>
             d == <<e[1] + 1, e[2] + 2>>
         IN /\ sol.vertical[e] = Stub(Turn(board[t], opts[t]), 4)
            /\ sol.vertical[e] = Stub(Turn(board[d], opts[d]), 1)

\* A solution with edges of both kinds is being delivered.
SoundnessWitness ==
  /\ pc = "callback"
  /\ \E e \in HIndex : sol.horizontal[e]
  /\ \E e \in VIndex : sol.vertical[e]

\* C2. Completeness: when il_solve has returned and the callback never
\* asked to stop, every assignment of directions in which all neighbours
\* agree has had its edges delivered.
Completeness ==
  (pc = "done" /\ ~stopped) => ValidSolutions(board) \subseteq Delivered

\* il_solve has returned from a board with several solutions, one of them
\* with a straight line or a crossing, and all were wanted.
CompletenessWitness ==
  /\ pc = "done"
  /\ ~stopped
  /\ Cardinality(ValidSolutions(board)) >= 3
  /\ \E c \in Interior : board[c] \in {5, 10, 15}

\* C3. No solution is delivered twice within one call of il_solve.
NoDuplicates ==
  \A j, k \in 1 .. Len(delivered) : j # k => delivered[j] # delivered[k]

\* Three solutions of a board with a straight line have been delivered.
NoDuplicatesWitness ==
  /\ Len(delivered) >= 3
  /\ \E c \in Interior : board[c] \in {5, 10}

\* C4. Cancellation: once the callback has returned false, nothing more
\* is delivered, no direction is tried and no cell is drawn; the calls only
\* return, up to il_solve.
Cancellation ==
  [][stopped =>
       /\ delivered' = delivered
       /\ pc' \in {"return", "done"}
       /\ Len(stack') <= Len(stack)
       /\ ret' = FALSE]_vars

\* The callback stopped the search at its first solution, two guesses
\* deep, and il_solve has returned with that single solution delivered.
CancellationWitness ==
  /\ stopped
  /\ pc = "done"
  /\ Len(delivered) = 1
  /\ Cardinality(ValidSolutions(board)) >= 3

\* C5. In every solution handed to the callback, the stubs that the edges
\* of the solution give an interior cell are the stubs of the rotation
\* chosen for it, which is a rotation of the board's shape: no stub points
\* into the border.
ShapesKept ==
  pc = "callback" =>
    \A c \in Interior :
      /\ StubMask(sol, c[1] - 1, c[2] - 1) = Turn(board[c], opts[c])
      /\ \E i \in {1, 2, 4, 8} : StubMask(sol, c[1] - 1, c[2] - 1) = Turn(board[c], i)

\* A solution is being delivered in which a cell on the rim of the
\* interior carries stubs.
ShapesKeptWitness ==
  /\ pc = "callback"
  /\ \E c \in Interior :
       /\ c[1] \in {1, IL_AXIS - 2} \/ c[2] \in {1, IL_AXIS - 2}
       /\ StubMask(sol, c[1] - 1, c[2] - 1) \in {3, 6, 12, 9}
       /\ board[c] \notin {0, 15}

\* The number of bits set in c, and in the interior of a grid.
Popcount(c) == (c % 2) + ((c \div 2) % 2) + ((c \div 4) % 2) + ((c \div 8) % 2)

RECURSIVE BitsFrom(_, _)
BitsFrom(o, k) == IF k > NInterior THEN 0 ELSE Popcount(o[CellAt(k)]) + BitsFrom(o, k + 1)

TotalBits(o) == BitsFrom(o, 1)

\* C6. Termination: il_solve returns. A pass of propagate that does not
\* end the call removes an option bit; a direction tried by guess leaves
\* fewer option bits than guess was given, on a cell that had several
\* options, so that no more guesses are suspended than there are interior
\* cells; the loop that draws a cell is entered only when an interior cell
\* has several options.
Termination ==
  /\ <>(pc = "done")
  /\ [][(pc = "propagate" /\ pc' = "propagate") => TotalBits(opts') < TotalBits(opts)]_vars
  /\ [][(pc = "branch" /\ pc' = "propagate") => TotalBits(opts') < TotalBits(Top.options)]_vars
  /\ [](/\ Len(stack) <= NInterior
        /\ \A k \in 1 .. Len(stack) :
             ~single_bit_set(stack[k].options[<<stack[k].x, stack[k].y>>]))
  /\ [](pc = "guess" => \E c \in Interior : ~single_bit_set(opts[c]))

\* il_solve has returned after a guess made inside a guess.
TerminationWitness ==
  /\ pc = "done"
  /\ ~stopped
  /\ Len(delivered) >= 4

\* C7. A contradiction prunes the current subtree only: dpll returns true
\* and the callback is not invoked; a guess that gets true from dpll goes
\* on with its next direction; a board without any valid assignment never
\* has a solution delivered.
PruneOnly ==
  /\ [][pc = "pruned" =>
          /\ pc' = "return"
          /\ ret'
          /\ delivered' = delivered
          /\ stack' = stack]_vars
  /\ [][(pc = "return" /\ ret /\ stack # <<>>) =>
          /\ pc' = "branch"
          /\ Len(stack') = Len(stack)
          /\ stack'[Len(stack')].i = 2 * Top.i]_vars
  /\ []((pc = "done" /\ delivered # <<>>) => ValidSolutions(board) # {})

\* propagate has found a contradiction for a direction tried by guess,
\* which has a further direction to try.
PruneOnlyWitness ==
  /\ pc = "pruned"
  /\ stack # <<>>
  /\ Top.options[<<Top.x, Top.y>>] >= 2 * Top.i

\* C8 as claimed: a second run of propagate leaves the grid of the first
\* run unchanged, whatever the first run returned.
IdempotentAlways ==
  pc \in {"propagated", "pruned"} => propagate(board, opts).options = opts

\* C8. Idempotence: a second run of propagate on the grid left by a run
\* that returned true returns true and leaves the grid unchanged.
Idempotent ==
  pc = "propagated" => propagate(board, opts) = [options |-> opts, result |-> TRUE]

\* propagate has returned true after removing options.
IdempotentWitness ==
  /\ pc = "propagated"
  /\ opts # entry

\* C9. Propagation is monotone and confluent: an update of a cell leaves
\* it a subset of its options and changes no other cell, and the fixed
\* point reached without contradiction, in whatever order the cells are
\* visited, is the grid that propagate's own order reaches.
Confluent ==
  /\ [][pc = "propagate" => \A c \in Cells : And(opts'[c], Not(opts[c])) = 0]_vars
  /\ [](pc = "propagated" =>
          propagate(board, entry) = [options |-> opts, result |-> TRUE])

\* A fixed point has been reached from a grid that guess could have made,
\* with options removed on the way.
ConfluentWitness ==
  /\ pc = "propagated"
  /\ entry # InitialOptions(board)
  /\ TotalBits(opts) + 2 <= TotalBits(entry)

\* The stub of cell c, placed in direction i, towards direction d agrees
\* with the facing stub of its neighbour n placed in direction j.
Agree(c, i, d, n, j) ==
  Stub(Turn(board[c], i), d) = Stub(Turn(board[n], j), Opposite(d))

Dirs == {1, 2, 4, 8}

\* The neighbour of cell c in direction d.
Neighbour(c, d) ==
  IF d = 1 THEN <<c[1], c[2] - 1>>
  ELSE IF d = 2 THEN <<c[1] + 1, c[2]>>
  ELSE IF d = 4 THEN <<c[1], c[2] + 1>>
  ELSE <<c[1] - 1, c[2]>>

\* C10. When propagate returns true every interior cell has an option
\* left, and for each of its four neighbours, border cells included, an
\* option of the cell and an option of the neighbour agree on the shared
\* edge.
FixedPoint ==
  pc = "propagated" =>
    \A c \in Interior :
      /\ opts[c] # 0
      /\ \A d \in Dirs :
           \E i, j \in Dirs :
             /\ And(opts[c], i) # 0
             /\ And(opts[Neighbour(c, d)], j) # 0
             /\ Agree(c, i, d, Neighbour(c, d), j)

\* propagate has returned true with a cell that still has several options.
FixedPointWitness ==
  /\ pc = "propagated"
  /\ \E c \in Interior : Popcount(opts[c]) >= 2
  /\ opts # entry

\* A cell with index 0 or IL_AXIS - 1 on either axis.
OnBorder(c) == c[1] \in {0, IL_AXIS - 1} \/ c[2] \in {0, IL_AXIS - 1}

\* The cell guess computes from its draw.
Drawn(v) == <<v \div IL_AXIS, v % IL_AXIS>>

\* C11. After a successful il_problem_parse every border cell of the
\* board holds shape 0; throughout il_solve on that board every border
\* cell of the running options grid and of every grid a suspended guess
\* holds is 0x1; no step of propagate changes a border cell; a draw of a
\* border cell is drawn again, and no guess branches on a border cell.
BorderInvariant ==
  /\ [](pc \notin {"clear", "parse", "rejected"} =>
          \A c \in Cells : OnBorder(c) => board[c] = 0)
  /\ [](pc \notin {"clear", "parse", "rejected", "parsed"} =>
          \A c \in Cells : OnBorder(c) =>
            /\ opts[c] = 1
            /\ entry[c] = 1
            /\ \A k \in DOMAIN stack : stack[k].options[c] = 1)
  /\ [](\A k \in DOMAIN stack : ~OnBorder(<<stack[k].x, stack[k].y>>))
  /\ [][pc = "propagate" =>
          \A c \in Cells : OnBorder(c) => opts'[c] = opts[c]]_vars
  /\ [][(pc = "guess" /\ OnBorder(Drawn(u'))) =>
          (pc' = "guess" /\ stack' = stack)]_vars

\* On a parsed board with a piece next to the border, guess has drawn the
\* last border cell and is drawing again.
BorderInvariantWitness ==
  /\ pc = "guess"
  /\ u = IL_AXIS * IL_AXIS - 1
  /\ board[<<1, 1>>] # 0
  /\ \E c \in Interior : ~single_bit_set(opts[c])

====
